---------------------------- MODULE Spec2Model ----------------------------
(***************************************************************************)
(* Model of the SO3CmdToCrazyflie nodelet                                  *)
(* (interfaces/kr_crazyflie_interface/src/so3cmd_to_crazyflie_nodelet.cpp).*)
(*                                                                         *)
(* Numbers.  Times are integer nanoseconds.  Angles are integers in units  *)
(* of 2^-26 rad, the grid on which every float of magnitude >= 2^-3 rad is *)
(* exactly representable; Fl rounds to the float grid.  Angular velocities *)
(* are in units of 2^-6 rad/s, angular accelerations 2^-6 rad/s^2, output  *)
(* angles and rates millidegrees.  Forces are centi-Newtons, masses        *)
(* 1e-2 g, thrust is in PWM units.                                         *)
(* A floating point NaN is the value NaN; every comparison with it is      *)
(* false, as in IEEE-754.                                                  *)
(*                                                                         *)
(* Orientations.  The current orientation is Rz(yaw) * Rx(0 or pi), whose  *)
(* rotation matrix has R(1,0)/R(0,0) = tan(yaw) and third column           *)
(* (0,0,1) or (0,0,-1).  The desired orientation is Rz(yaw).  For these    *)
(* the matrix entries the code reads are exact.                            *)
(***************************************************************************)
EXTENDS Integers, Sequences, FiniteSets, TLC

VARIABLES
  pc,                  \* "boot" before onInit, "running" once subscribed, "halted" after the early return
  cfg,                 \* the parameter server content read by onInit
  now,                 \* ros::Time::now()
  odom_set_, so3_cmd_set_,
  last_odom_time_, q_odom_, w_odom_, w_odom_last, w_dot_odom_,
  last_so3_cmd_time_, last_so3_cmd_,
  motor_status_, armed_,
  pub,                 \* what the last handler published, in order
  req,                 \* the packet_client_ calls of the last handler, in order
  ev,                  \* the last handler, its input, whether it was a re-issue, and whether it
                       \* was the delivery of the same command as the handler before it
  lastreq,             \* the most recent packet_client_ call
  armok,               \* an arm request succeeded since the last disarm request
  zeros,               \* zero-command cycles of enable commands since the start or the last disable command
  ncmd,                \* messages delivered on so3_cmd, counted up to 2
  cycle,               \* enable commands delivered since armed_ = false, motor_status_ = 0 and with no re-issue since; -1 otherwise
  yaw_des_in, yaw_cur_in, e_yaw_out   \* inputs and result of the yaw error computation

vars == <<pc, cfg, now, odom_set_, so3_cmd_set_, last_odom_time_, q_odom_, w_odom_,
          w_odom_last, w_dot_odom_, last_so3_cmd_time_, last_so3_cmd_, motor_status_,
          armed_, pub, req, ev, lastreq, armok, zeros, ncmd, cycle, yaw_des_in, yaw_cur_in,
          e_yaw_out>>

nodevars == <<pc, cfg, now, odom_set_, so3_cmd_set_, last_odom_time_, q_odom_, w_odom_,
              w_odom_last, w_dot_odom_, last_so3_cmd_time_, last_so3_cmd_, motor_status_,
              armed_, pub, req, ev, lastreq, armok, zeros, ncmd, cycle>>

yawvars == <<yaw_des_in, yaw_cur_in, e_yaw_out>>

---------------------------------------------------------------------------
(* Bounds of the model *)

MaxTime == 2
MaxMotorStatus == 12
YawDiv == 4

---------------------------------------------------------------------------
(* Floating point *)

NaN == -2000000000

IsNaN(x) == x = NaN

Less(x, y) == ~IsNaN(x) /\ ~IsNaN(y) /\ x < y

Greater(x, y) == ~IsNaN(x) /\ ~IsNaN(y) /\ x > y

Abs(x) == IF x < 0 THEN -x ELSE x

\* M_PI and 2 * M_PI as doubles, in units of 2^-26 rad, rounded down
\* (pi * 2^26 = 210828714.13...); a float is a whole number of units, so
\* comparing it with the rounded value gives the same answer.
PiD == 210828714

TwoPiD == 421657428

\* (float) M_PI = 13176795 * 2^-22, the value atan2 returns for yaw = pi
PiF == 210828720

\* spacing of the floats around x
Ulp(x) ==
  IF Abs(x) >= 268435456 THEN 32
  ELSE IF Abs(x) >= 134217728 THEN 16
  ELSE IF Abs(x) >= 67108864 THEN 8
  ELSE IF Abs(x) >= 33554432 THEN 4
  ELSE IF Abs(x) >= 16777216 THEN 2
  ELSE 1

\* conversion of a double to float: round to nearest, ties to even
Fl(x) ==
  LET u == Ulp(x)
      q == x \div u
      r == x - q * u
  IN IF 2 * r < u THEN q * u
     ELSE IF 2 * r > u THEN (q + 1) * u
     ELSE IF q % 2 = 0 THEN q * u ELSE (q + 1) * u

\* std::sqrt on a non-negative argument, rounded down to the model's grid
Isqrt(n) == CHOOSE r \in 0..(n + 1) : r * r <= n /\ (r + 1) * (r + 1) > n

\* std::sqrt: NaN for a negative argument
Sqrt(x) == IF IsNaN(x) \/ x < 0 THEN NaN ELSE Isqrt(x)

Add(x, y) == IF IsNaN(x) \/ IsNaN(y) THEN NaN ELSE x + y

Mul(x, y) == IF IsNaN(x) \/ IsNaN(y) THEN NaN ELSE x * y

\* integer division rounding toward zero
Quot(x, d) == IF x >= 0 THEN x \div d ELSE -((-x) \div d)

\* x * (180 / M_PI): 2^-26 rad to millidegrees (2^26 * pi / 180000 = 1171.27)
RadToDeg(x) == IF IsNaN(x) THEN NaN ELSE Quot(x, 1171)

Max(a, b) == IF a < b THEN b ELSE a

---------------------------------------------------------------------------
(* Configuration and message values *)

\* so3_cmd_timeout default 0.1 s
so3_cmd_timeout_ == 100000000

thrust_pwm_max_ == 60000

thrust_pwm_min_ == 10000

\* (c1, c2, c3) in units of 1e-5, 1e-4 and 1e-2 g: a usual calibration, and
\* one whose c3 makes c3 + grams negative for small forces
CGood == <<-67090, 1932, 1307>>

CNeg == <<-67090, 1932, -2000>>

CTriples == {CGood, CNeg}

Required == {"kp_yaw_rate", "c", "ang_acc_d_gain", "mav_name"}

\* geometry_msgs::Twist: linear.x, linear.y, linear.z, angular.z and the publisher used
Twist(chan, x, y, z, az) == [chan |-> chan, x |-> x, y |-> y, z |-> z, az |-> az]

\* a default-constructed Twist published on crazy_cmd_vel_pub_
ZeroCmd == Twist("slow", 0, 0, 0, 0)

MinThrustCmd_Fast == Twist("fast", 0, 0, thrust_pwm_min_, 0)

\* the spin-up command: linear.z = thrust_pwm_min_
MinThrustCmd == Twist("slow", 0, 0, thrust_pwm_min_, 0)

\* a kr_mav_msgs::SO3Command: header.stamp, aux.enable_motors, force, yaw of
\* orientation, kR[2], kOm[0..1], angular_velocity, aux.angle_corrections
SO3Command(stamp, en, f, yd, kR2, kOm, wd, corr) ==
  [stamp |-> stamp, enable_motors |-> en, force |-> f, yaw |-> yd, kR2 |-> kR2,
   kOm |-> kOm, angular_velocity |-> wd, angle_corrections |-> corr]

\* a nav_msgs::Odometry: header.stamp, orientation (yaw, sign of R(2,2)), twist.angular
Odometry(stamp, yaw, zc, w) == [stamp |-> stamp, q |-> [yaw |-> yaw, zc |-> zc], w |-> w]

---------------------------------------------------------------------------
(* The conversion pipeline of so3_cmd_callback *)

CLAMP_NoUpper(x, min, max) == IF Less(x, min) THEN min ELSE x

\* #define CLAMP(x, min, max) ((x) < (min)) ? (min) : ((x) > (max)) ? (max) : (x)
CLAMP(x, min, max) == IF Less(x, min) THEN min ELSE IF Greater(x, max) THEN max ELSE x

\* third column of R_cur
Col2(q) == <<0, 0, q.zc>>

\* thrust_f .. thrust_pwm * thrust_pwm_max_ (lines 284-296)
ThrustPwm(f, q, c) ==
  LET thrust_f == f[1] * Col2(q)[1] + f[2] * Col2(q)[2] + f[3] * Col2(q)[3]
      clamped  == Max(thrust_f, 0)
      grams    == Quot(clamped * 100000, 981)
      t        == Add(c[1], Mul(c[2], Sqrt(c[3] + grams)))
  IN IF IsNaN(t) THEN NaN ELSE Quot(Quot(t, 10) * (thrust_pwm_max_ \div 10), 1000)

YawError_FloatPi(yaw_des, yaw_cur) ==
  LET e == Fl(yaw_des - yaw_cur)
  IN IF e > PiF THEN Fl(e - TwoPiD)
     ELSE IF e < -PiF THEN Fl(e + TwoPiD)
     ELSE e

\* e_yaw (lines 301-305)
YawError(yaw_des, yaw_cur) ==
  LET e == Fl(yaw_des - yaw_cur)
  IN IF e > PiD THEN Fl(e - TwoPiD)
     ELSE IF e < -PiD THEN Fl(e + TwoPiD)
     ELSE e

\* yaw_rate_des (line 307)
YawRate(msg, q) ==
  RadToDeg((-msg.kR2 * YawError(msg.yaw, q.yaw)) - msg.angular_velocity[3] * 1048576)

\* roll_rate_des / pitch_rate_des of the send_ctbr_cmds_ branch (lines 319-328);
\* gain in 1/100; 2^-6 rad/s is 895 millidegrees/s
BodyRate(msg, w, wdot, gain, i) ==
  LET p == msg.kOm[i] * (msg.angular_velocity[i] - w[i])
      d == Quot(gain * wdot[i], 100)
  IN (p - d) * 895

\* crazy_vel_cmd (lines 264-350); roll_des = pitch_des = 0 for a desired
\* orientation that is a rotation about z
FullCmd(msg, q, w, wdot, c, gain) ==
  Twist("fast",
        IF cfg.send_ctbr_cmds THEN BodyRate(msg, w, wdot, gain, 2)
                              ELSE RadToDeg(0) + msg.angle_corrections[2],
        IF cfg.send_ctbr_cmds THEN BodyRate(msg, w, wdot, gain, 1)
                              ELSE RadToDeg(0) + msg.angle_corrections[1],
        CLAMP(ThrustPwm(msg.force, q, c), thrust_pwm_min_, thrust_pwm_max_),
        YawRate(msg, q))

---------------------------------------------------------------------------
(* Requests to the send_packet service *)

\* one packet_client_.call of send_arming_request; ok is the call's result
send_arming_request(arm, ok) == [type |-> IF arm THEN "arm" ELSE "disarm", ok |-> ok]

reboot_AbortOnFailure(ok1, ok2) ==
  IF ok1 THEN <<[type |-> "sysoff", ok |-> ok1], [type |-> "syson", ok |-> ok2]>>
         ELSE <<[type |-> "sysoff", ok |-> ok1]>>

\* SYSOFF, sleep, SYSON; a failed call is logged and the sequence goes on
reboot(ok1, ok2) == <<[type |-> "sysoff", ok |-> ok1], [type |-> "syson", ok |-> ok2]>>

---------------------------------------------------------------------------
(* so3_cmd_callback *)

InZeroPhase_Two(ms) == ms < 2

\* motor_status_ < 3 (line 213): the zero message is sent and the handler returns
InZeroPhase(ms) == ms < 3

InMinPhase_Nine(ms) == ms < 9

InMinPhase_Eleven(ms) == ms < 11

\* motor_status_ < 10 (line 223): the minimum thrust message is sent
InMinPhase(ms) == ms < 10

NeedsArm_Always(armed) == ~armed

\* is_brushless_ and !armed_ (lines 200-202): an arm request is made
NeedsArm(armed) == cfg.is_brushless /\ ~armed

ArmedAfter_OnSuccess(arm, ok) == IF ok THEN arm ELSE ~arm

ArmedAfter_StaysArmed(arm, ok) == TRUE

\* armed_ after send_arming_request(arm) returned with result ok (lines 206-208,
\* 246-248): the result is not looked at
ArmedAfter(arm, ok) == arm

LastCmdStored_Skip(msg) == last_so3_cmd_

\* last_so3_cmd_ = *msg (lines 217, 236, 352)
LastCmdStored(msg) == msg

StampStored_Now(msg) == now

\* last_so3_cmd_time_ = msg->header.stamp (lines 218, 237, 354)
StampStored(msg) == msg.stamp

\* what one call does with motor_status_ = ms, armed_ = armed and the pose
\* (q, w, wdot): the new fields, the messages published and the requests made.
\* c and gain are c1_..c3_ and ang_acc_d_gain; ok[1..3] are the results of
\* the service calls the handler makes.
so3_cmd_callback(msg, ms, armed, q, w, wdot, c, gain, ok) ==
  IF msg.enable_motors
  THEN LET arm == NeedsArm(armed)
           rq  == IF arm THEN <<send_arming_request(TRUE, ok[1])>> ELSE <<>>
           ar  == IF arm THEN ArmedAfter(TRUE, ok[1]) ELSE armed
       IN IF InZeroPhase(ms)
          THEN [motor_status |-> ms + 1, armed |-> ar, pub |-> <<ZeroCmd>>, req |-> rq,
                last_so3_cmd |-> LastCmdStored(msg), last_so3_cmd_time |-> StampStored(msg)]
          ELSE [motor_status |-> ms + 1, armed |-> ar,
                pub |-> (IF InMinPhase(ms) THEN <<MinThrustCmd>> ELSE <<>>)
                        \o <<FullCmd(msg, q, w, wdot, c, gain)>>,
                req |-> rq,
                last_so3_cmd |-> LastCmdStored(msg), last_so3_cmd_time |-> StampStored(msg)]
  ELSE LET disarm == cfg.is_brushless /\ armed
       IN [motor_status |-> 0,
           armed |-> IF disarm THEN ArmedAfter(FALSE, ok[1]) ELSE armed,
           pub |-> <<ZeroCmd>>,
           req |-> IF disarm THEN <<send_arming_request(FALSE, ok[1])>> \o reboot(ok[2], ok[3])
                             ELSE <<>>,
           last_so3_cmd |-> LastCmdStored(msg), last_so3_cmd_time |-> StampStored(msg)]

\* the values a read of c1_, c2_, c3_ can give: uninitialized when the parameters are missing
CRead == IF "c" \in cfg.missing THEN CTriples ELSE {cfg.c}

Gains == {0, 50}

\* the values a read of ang_acc_d_gain can give
GainRead == IF "ang_acc_d_gain" \in cfg.missing THEN Gains ELSE {cfg.gain}

\* q_odom_, w_odom_, w_dot_odom_ are not initialized before the first odometry message
UninitPoses ==
  {[q |-> [yaw |-> 0, zc |-> zc], w |-> <<0, 0, 0>>, wdot |-> <<0, 0, 0>>] : zc \in {1, -1}}

PoseRead ==
  IF odom_set_ THEN {[q |-> q_odom_, w |-> w_odom_, wdot |-> w_dot_odom_]} ELSE UninitPoses

\* the results the service calls of one handler run can have: one call when
\* arming, three when disarming, none otherwise
Oks(msg) ==
  IF ~cfg.is_brushless \/ msg.enable_motors = armed_ THEN {<<TRUE, TRUE, TRUE>>}
  ELSE IF msg.enable_motors THEN {<<b, TRUE, TRUE>> : b \in BOOLEAN}
  ELSE {<<b1, b2, b3>> : b1 \in BOOLEAN, b2 \in BOOLEAN, b3 \in BOOLEAN}

\* the service calls since the start, seen through their last element and
\* through "an arm call succeeded after the last disarm call"
LastReq(rq, prev) == IF rq = <<>> THEN prev ELSE rq[Len(rq)].type

ArmOk(rq, prev) ==
  IF \E i \in 1..Len(rq) : rq[i].type = "disarm" THEN FALSE
  ELSE IF \E i \in 1..Len(rq) : rq[i].type = "arm" /\ rq[i].ok THEN TRUE
  ELSE prev

\* zero-command cycles since the start or the last disable command, after a
\* call for msg that published pubd
ZerosAfter(msg, pubd, prev) ==
  IF ~msg.enable_motors THEN 0 ELSE IF pubd = <<ZeroCmd>> THEN prev + 1 ELSE prev

\* the fields a call of so3_cmd_callback for msg leaves behind
Commit(msg, r) ==
  /\ so3_cmd_set_' = TRUE
  /\ motor_status_' = r.motor_status
  /\ armed_' = r.armed
  /\ last_so3_cmd_' = r.last_so3_cmd
  /\ last_so3_cmd_time_' = r.last_so3_cmd_time
  /\ pub' = r.pub
  /\ req' = r.req
  /\ lastreq' = LastReq(r.req, lastreq)
  /\ armok' = ArmOk(r.req, armok)
  /\ zeros' = ZerosAfter(msg, r.pub, zeros)

\* delivery of one message on so3_cmd
So3Cmd(msg) ==
  /\ pc = "running"
  /\ msg.enable_motors => motor_status_ < MaxMotorStatus
  /\ \E ok \in Oks(msg), p \in PoseRead, c \in CRead, gain \in GainRead :
        Commit(msg, so3_cmd_callback(msg, motor_status_, armed_, p.q, p.w, p.wdot, c, gain, ok))
  /\ ev' = [kind |-> "so3", in |-> msg, reissue |-> FALSE,
            repeat |-> ev.kind = "so3" /\ ev.in = msg]
  /\ cycle' = IF ~msg.enable_motors THEN 0 ELSE IF cycle >= 0 THEN cycle + 1 ELSE -1
  /\ ncmd' = IF ncmd < 2 THEN ncmd + 1 ELSE ncmd
  /\ UNCHANGED <<pc, cfg, now, odom_set_, last_odom_time_, q_odom_, w_odom_, w_odom_last,
                 w_dot_odom_, yawvars>>

---------------------------------------------------------------------------
(* odom_callback *)

\* dt > 1e-6 for dt = (current_time - last_odom_time_).toSec(): toSec computes
\* 1e-9 * nsec in double, and 1e-9 * 1000 = 1.0000000000000002e-06 > 1e-6
DtAboveEps(dt) == dt >= 1000

\* (w_odom_current - w_odom_last) / dt, dt in nanoseconds
FiniteDiff(wcur, wlast, dt) == [i \in 1..3 |-> Quot((wcur[i] - wlast[i]) * 1000000000, dt)]

\* the angular acceleration estimate after the sample (lines 150-173)
NewWDot(odom) ==
  IF ~odom_set_ THEN <<0, 0, 0>>
  ELSE IF DtAboveEps(odom.stamp - last_odom_time_)
       THEN FiniteDiff(odom.w, w_odom_last, odom.stamp - last_odom_time_)
       ELSE w_dot_odom_

Tracks_Always(odom) == TRUE

\* whether the sample replaces w_odom_last and last_odom_time_
Tracks(odom) == ~odom_set_ \/ DtAboveEps(odom.stamp - last_odom_time_)

Stale_BySampleStamp(odom) ==
  so3_cmd_set_ /\ (odom.stamp - last_so3_cmd_time_) >= so3_cmd_timeout_

\* the test of line 180
Stale(odom) == so3_cmd_set_ /\ (now - last_so3_cmd_time_) >= so3_cmd_timeout_

ReissuedCommand_Zero ==
  SO3Command(last_so3_cmd_time_, FALSE, <<0, 0, 0>>, 0, 0, <<0, 0>>, <<0, 0, 0>>, <<0, 0>>)

\* the message the timeout branch hands to so3_cmd_callback (line 184)
ReissuedCommand == last_so3_cmd_

\* delivery of one message on odom
OdomCb(odom) ==
  /\ pc = "running"
  /\ odom_set_' = TRUE
  /\ w_dot_odom_' = NewWDot(odom)
  /\ w_odom_last' = IF Tracks(odom) THEN odom.w ELSE w_odom_last
  /\ last_odom_time_' = IF Tracks(odom) THEN odom.stamp ELSE last_odom_time_
  /\ q_odom_' = odom.q
  /\ w_odom_' = odom.w
  /\ IF Stale(odom)
     THEN /\ ReissuedCommand.enable_motors => motor_status_ < MaxMotorStatus
          /\ \E ok \in Oks(ReissuedCommand), c \in CRead, gain \in GainRead :
                Commit(ReissuedCommand,
                       so3_cmd_callback(ReissuedCommand, motor_status_, armed_,
                                        odom.q, odom.w, NewWDot(odom), c, gain, ok))
          /\ cycle' = IF ReissuedCommand.enable_motors THEN -1 ELSE 0
     ELSE /\ pub' = <<>>
          /\ req' = <<>>
          /\ UNCHANGED <<so3_cmd_set_, motor_status_, armed_, last_so3_cmd_,
                         last_so3_cmd_time_, lastreq, armok, zeros, cycle>>
  /\ ev' = [kind |-> "odom", in |-> odom, reissue |-> Stale(odom), repeat |-> FALSE]
  /\ UNCHANGED <<pc, cfg, now, ncmd, yawvars>>

---------------------------------------------------------------------------
(* onInit and the clock *)

\* the values of ros::Time::now() the model visits: multiples of 0.05 s
Instants == {k * 50000000 : k \in 0..MaxTime}

\* ros::Time::now() advances
Tick ==
  /\ \E t \in Instants : t > now /\ now' = t
  /\ pub' = <<>>
  /\ req' = <<>>
  /\ ev' = [kind |-> "tick", in |-> <<>>, reissue |-> FALSE, repeat |-> FALSE]
  /\ UNCHANGED <<pc, cfg, odom_set_, so3_cmd_set_, last_odom_time_, q_odom_, w_odom_,
                 w_odom_last, w_dot_odom_, last_so3_cmd_time_, last_so3_cmd_,
                 motor_status_, armed_, lastreq, armok, zeros, ncmd, cycle, yawvars>>

\* a default-constructed kr_mav_msgs::SO3Command
NoCommand == SO3Command(0, FALSE, <<0, 0, 0>>, 0, 0, <<0, 0>>, <<0, 0, 0>>, <<0, 0>>)

NoPose == [yaw |-> 0, zc |-> 1]

onInit_ReturnOnAnyMissing == IF cfg.missing # {} THEN "halted" ELSE "running"

\* where onInit ends: it returns before subscribing only when mav_name is missing
onInit == IF "mav_name" \in cfg.missing THEN "halted" ELSE "running"

\* the nodelet manager calls onInit
Boot ==
  /\ pc = "boot"
  /\ pc' = onInit
  /\ odom_set_' = FALSE
  /\ so3_cmd_set_' = FALSE
  /\ motor_status_' = 0
  /\ armed_' = FALSE
  /\ pub' = <<>>
  /\ req' = <<>>
  /\ ev' = [kind |-> "onInit", in |-> <<>>, reissue |-> FALSE, repeat |-> FALSE]
  /\ UNCHANGED <<cfg, now, last_odom_time_, q_odom_, w_odom_, w_odom_last, w_dot_odom_,
                 last_so3_cmd_time_, last_so3_cmd_, lastreq, armok, zeros, ncmd, cycle,
                 yawvars>>

\* the object before onInit, for a parameter server content in Cfgs
InitNode(Cfgs) ==
  /\ pc = "boot"
  /\ cfg \in Cfgs
  /\ now = 0
  /\ odom_set_ = FALSE
  /\ so3_cmd_set_ = FALSE
  /\ last_odom_time_ = 0
  /\ q_odom_ = NoPose
  /\ w_odom_ = <<0, 0, 0>>
  /\ w_odom_last = <<0, 0, 0>>
  /\ w_dot_odom_ = <<0, 0, 0>>
  /\ last_so3_cmd_time_ = 0
  /\ last_so3_cmd_ = NoCommand
  /\ motor_status_ = 0
  /\ armed_ = FALSE
  /\ pub = <<>>
  /\ req = <<>>
  /\ ev = [kind |-> "none", in |-> <<>>, reissue |-> FALSE, repeat |-> FALSE]
  /\ lastreq = "none"
  /\ armok = FALSE
  /\ zeros = 0
  /\ ncmd = 0
  /\ cycle = 0
  /\ yaw_des_in = 0
  /\ yaw_cur_in = 0
  /\ e_yaw_out = 0

Config(b, ctbr, missing, c, gain) ==
  [is_brushless |-> b, send_ctbr_cmds |-> ctbr, missing |-> missing, c |-> c, gain |-> gain]

---------------------------------------------------------------------------
(* Spec: the arming and spin-up sequencing, all parameters present *)

Cfgs == {Config(b, FALSE, {}, CGood, 0) : b \in BOOLEAN}

\* commands stamped at any instant up to the current time
Msgs ==
  {SO3Command(t, en, <<0, 0, 30>>, 0, 1, <<1, 1>>, <<0, 0, 0>>, <<0, 0>>) :
     t \in {i \in Instants : i <= now}, en \in BOOLEAN}

\* samples stamped at any instant up to the current time
Samples == {Odometry(t, 0, 1, <<0, 0, 0>>) : t \in {i \in Instants : i <= now}}

Init == InitNode(Cfgs)

Next ==
  \/ Boot
  \/ Tick
  \/ \E msg \in Msgs : So3Cmd(msg)
  \/ \E odom \in Samples : OdomCb(odom)

Spec == Init /\ [][Next]_vars

---------------------------------------------------------------------------
(* SpecInit: onInit with parameters missing *)

CfgsMissing == {Config(TRUE, FALSE, m, CGood, 0) : m \in {{}} \cup {{r} : r \in Required}}

InitMissing == InitNode(CfgsMissing)

SpecInit == InitMissing /\ [][Next]_vars

---------------------------------------------------------------------------
(* SpecConv: the conversion pipeline on varied commands and poses *)

CfgsConv == {Config(FALSE, FALSE, {}, CGood, 50), Config(FALSE, TRUE, {}, CNeg, 50)}

Forces == {<<0, 0, 0>>, <<0, 0, 30>>, <<0, 0, 200>>}

MsgsConv ==
  {SO3Command(now, TRUE, f, PiF, 1, <<1, 1>>, <<1, 0, 0>>, <<100, 0>>) : f \in Forces}
  \cup {SO3Command(now, FALSE, <<0, 0, 0>>, 0, 1, <<1, 1>>, <<0, 0, 0>>, <<0, 0>>)}

\* upright and at rest, or inverted, yawed by pi/2 and turning
SamplesConv ==
  {Odometry(t, 0, 1, <<0, 0, 0>>) : t \in {i \in Instants : i <= now}}
  \cup {Odometry(t, PiF \div 2, -1, <<1, 0, 0>>) : t \in {i \in Instants : i <= now}}

InitConv == InitNode(CfgsConv)

NextConv ==
  \/ Boot
  \/ Tick
  \/ \E msg \in MsgsConv : So3Cmd(msg)
  \/ \E odom \in SamplesConv : OdomCb(odom)

SpecConv == InitConv /\ [][NextConv]_vars

---------------------------------------------------------------------------
(* SpecYaw: the yaw error on the floats of [-pi, pi] *)

YawBase == {Fl(Quot(k * PiF, YawDiv)) : k \in (-YawDiv)..YawDiv}

\* the grid points and their neighbouring floats, within the range of atan2
YawVals ==
  {v \in YawBase \cup {Fl(b + Ulp(b)) : b \in YawBase} \cup {Fl(b - Ulp(b)) : b \in YawBase} :
     Abs(v) <= PiF}

InitYaw ==
  /\ pc = "yaw_in"
  /\ cfg = Config(FALSE, FALSE, {}, CGood, 0)
  /\ now = 0
  /\ odom_set_ = FALSE
  /\ so3_cmd_set_ = FALSE
  /\ last_odom_time_ = 0
  /\ q_odom_ = NoPose
  /\ w_odom_ = <<0, 0, 0>>
  /\ w_odom_last = <<0, 0, 0>>
  /\ w_dot_odom_ = <<0, 0, 0>>
  /\ last_so3_cmd_time_ = 0
  /\ last_so3_cmd_ = NoCommand
  /\ motor_status_ = 0
  /\ armed_ = FALSE
  /\ pub = <<>>
  /\ req = <<>>
  /\ ev = [kind |-> "none", in |-> <<>>, reissue |-> FALSE, repeat |-> FALSE]
  /\ lastreq = "none"
  /\ armok = FALSE
  /\ zeros = 0
  /\ ncmd = 0
  /\ cycle = 0
  /\ yaw_des_in \in YawVals
  /\ yaw_cur_in \in YawVals
  /\ e_yaw_out = 0

\* lines 301-305 applied to yaw_des_in and yaw_cur_in
YawStep ==
  /\ pc = "yaw_in"
  /\ pc' = "yaw_out"
  /\ e_yaw_out' = YawError(yaw_des_in, yaw_cur_in)
  /\ UNCHANGED <<cfg, now, odom_set_, so3_cmd_set_, last_odom_time_, q_odom_, w_odom_,
                 w_odom_last, w_dot_odom_, last_so3_cmd_time_, last_so3_cmd_, motor_status_,
                 armed_, pub, req, ev, lastreq, armok, zeros, ncmd, cycle, yaw_des_in,
                 yaw_cur_in>>

NextYaw == YawStep

SpecYaw == InitYaw /\ [][NextYaw]_vars

---------------------------------------------------------------------------
(* SpecTrack: odom_callback on samples with close, equal and out-of-order stamps *)

\* offsets of the sample stamps from the instants, in nanoseconds
FineOffsets == {0, 500, 1000}

SamplesTrack ==
  {Odometry(t + d, yaw, 1, w) :
     t \in {i \in Instants : i <= now}, d \in FineOffsets, yaw \in {0, PiF \div 2},
     w \in {<<0, 0, 0>>, <<1, 0, 0>>}}

InitTrack == InitNode({Config(FALSE, FALSE, {}, CGood, 0)})

NextTrack ==
  \/ Boot
  \/ Tick
  \/ \E odom \in SamplesTrack : OdomCb(odom)

SpecTrack == InitTrack /\ [][NextTrack]_vars

---------------------------------------------------------------------------
(* Properties *)

ReqTypes(rq) == [i \in 1..Len(rq) |-> rq[i].type]

\* the last handler was the cycle-th enable command of a run that started
\* with armed_ = false and motor_status_ = 0 and saw no re-issue
InCycle == ev.kind = "so3" /\ cycle >= 1

HasMinThrust == \E i \in 1..Len(pub) : pub[i] = MinThrustCmd

\* the conversion outputs the command just delivered can give
FullOutputs == {FullCmd(ev.in, p.q, p.w, p.wdot, cfg.c, cfg.gain) : p \in PoseRead}

\* C1 as stated: zero command alone on cycles 1-3, a minimum thrust command
\* on cycles 4-9 and on no later cycle, only conversion output afterwards
C1_AsStated ==
  InCycle =>
    /\ cycle \in 1..3 => pub = <<ZeroCmd>>
    /\ cycle \in 4..9 => HasMinThrust
    /\ cycle >= 10 => ~HasMinThrust /\ \A i \in 1..Len(pub) : pub[i] \in FullOutputs

\* C1 amended: in an arming run of enable commands, cycles 1-3 publish exactly
\* one zero command, cycles 4-10 publish the minimum thrust command followed
\* by the conversion output, and cycles from 11 on publish the conversion
\* output alone
C1_ArmingSequence ==
  InCycle =>
    /\ cycle \in 1..3 => pub = <<ZeroCmd>>
    /\ cycle \in 4..10 => Len(pub) = 2 /\ pub[1] = MinThrustCmd /\ pub[2] \in FullOutputs
    /\ cycle >= 11 => Len(pub) = 1 /\ pub[1] \in FullOutputs

C1_Witness == InCycle /\ cycle = 11 /\ Len(pub) = 1 /\ pub[1].chan = "fast"

\* the step processes a command with enable_motors = false, delivered or re-issued
DisableStep ==
  \/ ev'.kind = "so3" /\ ~ev'.in.enable_motors
  \/ ev'.kind = "odom" /\ ev'.reissue /\ ~last_so3_cmd_.enable_motors

\* C2: processing a disable command sets motor_status_ to 0 and publishes
\* exactly one zero command; a brushless armed vehicle gets one disarm request,
\* then power-down, then power-up, whatever the requests' results; otherwise
\* no request is made
C2_DisableSequence ==
  [][DisableStep =>
       /\ motor_status_' = 0
       /\ pub' = <<ZeroCmd>>
       /\ ReqTypes(req') = IF cfg.is_brushless /\ armed_
                           THEN <<"disarm", "sysoff", "syson">> ELSE <<>>]_vars

C2_Witness ==
  /\ ev.kind = "so3" /\ ~ev.in.enable_motors
  /\ ReqTypes(req) = <<"disarm", "sysoff", "syson">>
  /\ ~req[1].ok /\ ~req[2].ok
  /\ motor_status_ = 0 /\ pub = <<ZeroCmd>>

\* C6 as stated: armed_ implies that an arm request succeeded since the last disarm
C6_ArmedImpliesArmSucceeded == armed_ => armok

\* C7: in the sequence of all requests, a disarm request is directly followed
\* by power-down and power-down by power-up, and no handler ends between
\* them, so no arm request falls inside a disarm/reboot sequence
C7_RebootNotInterleaved ==
  [][LET s == <<lastreq>> \o ReqTypes(req')
     IN /\ \A i \in 1..(Len(s) - 1) :
             /\ s[i] = "disarm" => s[i + 1] = "sysoff"
             /\ s[i] = "sysoff" => s[i + 1] = "syson"
        /\ s[Len(s)] \notin {"disarm", "sysoff"}
        /\ lastreq' = s[Len(s)]]_vars

C7_Witness ==
  /\ ReqTypes(req) = <<"disarm", "sysoff", "syson">>
  /\ ~req[2].ok
  /\ lastreq = "syson"

\* C8 as stated: the counter never exceeds the threshold 10
C8_CounterSaturates == motor_status_ <= 10

\* C9 as stated: with a required parameter missing the node never subscribes,
\* processes no command and emits nothing
C9_MissingParameterHalts ==
  cfg.missing # {} => pc # "running" /\ ~so3_cmd_set_ /\ pub = <<>> /\ req = <<>>

\* the step is a delivery on odom
OdomStep == ev'.kind = "odom"

\* the conversion output for the cached command and the pose of the sample just delivered
ReissuedFull == FullCmd(last_so3_cmd_, ev'.in.q, ev'.in.w, w_dot_odom_', cfg.c, cfg.gain)

\* C3 as stated: the re-issue is decided by the sample's timestamp, and a
\* re-issue publishes exactly one command, computed from the cached command
\* and the sample's pose
C3_AsStated ==
  [][OdomStep =>
       /\ ev'.reissue <=> (so3_cmd_set_
                           /\ ev'.in.stamp - last_so3_cmd_time_ >= so3_cmd_timeout_)
       /\ ~ev'.reissue => pub' = <<>>
       /\ ev'.reissue => /\ Len(pub') = 1
                         /\ pub'[1].chan = "fast" => pub'[1] = ReissuedFull]_vars

\* C3 amended: the re-issue is decided by ros::Time::now() at the delivery of
\* the sample minus the stamp of the last command; without re-issue nothing
\* is published; a re-issue publishes what processing the cached command
\* publishes: one zero command for a disable command or motor_status_ < 3,
\* else the conversion output for the cached command and the sample's
\* orientation and angular velocity, preceded by the minimum thrust command
\* while motor_status_ < 10
C3_TimeoutReissue ==
  [][OdomStep =>
       /\ ev'.reissue <=> (so3_cmd_set_ /\ now - last_so3_cmd_time_ >= so3_cmd_timeout_)
       /\ ~ev'.reissue => pub' = <<>>
       /\ ev'.reissue =>
            IF ~last_so3_cmd_.enable_motors \/ motor_status_ < 3
            THEN pub' = <<ZeroCmd>>
            ELSE IF motor_status_ < 10
                 THEN pub' = <<MinThrustCmd, ReissuedFull>>
                 ELSE pub' = <<ReissuedFull>>]_vars

\* a re-issue on a sample stamped less than the timeout after the command
C3_Witness ==
  /\ ev.kind = "odom" /\ ev.reissue
  /\ ev.in.stamp - last_so3_cmd_time_ < so3_cmd_timeout_
  /\ Len(pub) = 1 /\ pub[1].chan = "fast"
  /\ ev.in.q.zc = -1

\* C4 as stated: the thrust of every conversion output is within
\* [thrust_pwm_min_, thrust_pwm_max_], also when c3 + grams is negative
C4_ThrustWithinLimits ==
  \A i \in 1..Len(pub) :
     pub[i].chan = "fast" =>
        ~IsNaN(pub[i].z) /\ thrust_pwm_min_ <= pub[i].z /\ pub[i].z <= thrust_pwm_max_

C10_YawErrorWrapped == pc = "yaw_out" => -PiD <= e_yaw_out /\ e_yaw_out <= PiD

\* a difference of exactly -(float)pi, which the wrap maps to the positive side
C10_Witness ==
  /\ pc = "yaw_out"
  /\ yaw_des_in - yaw_cur_in = -PiF
  /\ e_yaw_out > 0

\* C11: in the Ready state (motor_status_ >= 10 before the first of the two)
\* and with a pose received, delivering the same command twice with no
\* odometry sample in between publishes the same single fast-channel command
\* both times, equal in every field
C11_ReadyIdempotent ==
  [][(/\ ev'.kind = "so3" /\ ev'.repeat /\ ev'.in.enable_motors
      /\ motor_status_ >= 11 /\ odom_set_)
     => /\ pub' = pub
        /\ Len(pub') = 1
        /\ pub'[1].chan = "fast"]_vars

C11_Witness ==
  /\ ev.kind = "so3" /\ ev.repeat /\ ev.in.enable_motors
  /\ motor_status_ >= 12 /\ odom_set_
  /\ Len(pub) = 1 /\ pub[1].chan = "fast"
  /\ pub[1].z = CLAMP(ThrustPwm(ev.in.force, q_odom_, cfg.c), thrust_pwm_min_, thrust_pwm_max_)

\* the step processes a command with enable_motors = true, delivered or re-issued
EnableStep ==
  \/ ev'.kind = "so3" /\ ev'.in.enable_motors
  \/ ev'.kind = "odom" /\ ev'.reissue /\ last_so3_cmd_.enable_motors

Requested(rq, type) == \E i \in 1..Len(rq) : rq[i].type = type

\* C12: armed_ takes the requested value whatever the request's result, a
\* request is made once, and while armed_ is true after a failed arm request
\* an enable command makes no request
C12_OptimisticArming ==
  [][/\ Requested(req', "arm") => armed_' /\ ReqTypes(req') = <<"arm">>
     /\ Requested(req', "disarm") => ~armed_' /\ req'[1].type = "disarm"
     /\ (EnableStep /\ armed_ /\ ~armok) => req' = <<>> /\ armed_']_vars

\* an enable command processed after the arm request failed: no new request
C12_Witness ==
  /\ ev.kind = "so3" /\ ev.in.enable_motors
  /\ armed_ /\ ~armok /\ lastreq = "arm"
  /\ req = <<>>
  /\ motor_status_ >= 2

\* C13: after a delivery on so3_cmd, on every path, last_so3_cmd_ is the
\* command delivered and last_so3_cmd_time_ its stamp; a re-issue leaves both
\* as they were, so it replays the command processed last
C13_LastCommandStored ==
  [][/\ ev'.kind = "so3" => last_so3_cmd_' = ev'.in /\ last_so3_cmd_time_' = ev'.in.stamp
     /\ ev'.kind = "odom" =>
          last_so3_cmd_' = last_so3_cmd_ /\ last_so3_cmd_time_' = last_so3_cmd_time_]_vars

\* a command stamped in the past stored on the minimum thrust path
C13_Witness ==
  /\ ev.kind = "so3" /\ ev.in.enable_motors
  /\ Len(pub) = 2
  /\ ev.in.stamp < now
  /\ last_so3_cmd_ = ev.in /\ last_so3_cmd_time_ = ev.in.stamp

HasFast(msgs) == \E i \in 1..Len(msgs) : msgs[i].chan = "fast"

\* C14: a cycle that processes an enable command with motor_status_ < 3
\* publishes exactly one zero command on the slow channel, nothing on the
\* fast channel, and adds one to motor_status_; a command on the fast channel
\* is published only after three zero-command cycles since the start or the
\* last disable command
C14_ZeroPhase ==
  [][/\ (EnableStep /\ motor_status_ < 3) =>
          /\ pub' = <<Twist("slow", 0, 0, 0, 0)>>
          /\ motor_status_' = motor_status_ + 1
     /\ HasFast(pub') => zeros' >= 3]_vars

\* the first conversion output after a disable command, three zero cycles later
C14_Witness ==
  /\ HasFast(pub)
  /\ zeros = 3
  /\ motor_status_ = 4
  /\ ncmd = 2

\* C15: a cycle that processes an enable command with 3 <= motor_status_ < 10
\* publishes two commands, first the minimum thrust command (thrust
\* thrust_pwm_min_, other fields zero) on the slow channel, then the
\* conversion output on the fast channel, and adds one to motor_status_
C15_MinThrustOverlap ==
  [][(EnableStep /\ 3 <= motor_status_ /\ motor_status_ < 10) =>
       /\ Len(pub') = 2
       /\ pub'[1] = Twist("slow", 0, 0, thrust_pwm_min_, 0)
       /\ pub'[2].chan = "fast"
       /\ pub'[2] \in {FullCmd(last_so3_cmd_', p.q, p.w, p.wdot, cfg.c, cfg.gain) :
                         p \in PoseRead'}
       /\ motor_status_' = motor_status_ + 1]_vars

\* the last cycle of the overlap, by re-issue
C15_Witness ==
  /\ ev.kind = "odom" /\ ev.reissue
  /\ motor_status_ = 10
  /\ Len(pub) = 2 /\ pub[1].z = thrust_pwm_min_ /\ pub[2].chan = "fast"

\* the finite difference of the sample just delivered against w_odom_last
SampleDiff ==
  [i \in 1..3 |-> Quot((ev'.in.w[i] - w_odom_last[i]) * 1000000000,
                       ev'.in.stamp - last_odom_time_)]

\* C16 as stated: the estimate is zero after the first sample, recomputed on
\* a later sample with dt > 1e-6 s, and on dt <= 1e-6 s (1000 ns) the
\* estimate, w_odom_last and last_odom_time_ are unchanged; q_odom_ and
\* w_odom_ are always replaced
C16_AsStated ==
  [][OdomStep =>
       /\ ~odom_set_ => w_dot_odom_' = <<0, 0, 0>>
       /\ (odom_set_ /\ ev'.in.stamp - last_odom_time_ > 1000) =>
            /\ w_dot_odom_' = SampleDiff
            /\ w_odom_last' = ev'.in.w /\ last_odom_time_' = ev'.in.stamp
       /\ (odom_set_ /\ ev'.in.stamp - last_odom_time_ <= 1000) =>
            UNCHANGED <<w_dot_odom_, w_odom_last, last_odom_time_>>
       /\ q_odom_' = ev'.in.q /\ w_odom_' = ev'.in.w]_vars

\* C16 amended: the estimate is recomputed on a later sample whose stamp is
\* at least 1000 ns after last_odom_time_ (toSec() of exactly 1000 ns is
\* 1.0000000000000002e-06 > 1e-6) and left unchanged, with w_odom_last and
\* last_odom_time_, when the difference is below 1000 ns, zero or negative
C16_AccelerationEstimate ==
  [][OdomStep =>
       /\ ~odom_set_ =>
            /\ w_dot_odom_' = <<0, 0, 0>>
            /\ w_odom_last' = ev'.in.w /\ last_odom_time_' = ev'.in.stamp
       /\ (odom_set_ /\ ev'.in.stamp - last_odom_time_ >= 1000) =>
            /\ w_dot_odom_' = SampleDiff
            /\ w_odom_last' = ev'.in.w /\ last_odom_time_' = ev'.in.stamp
       /\ (odom_set_ /\ ev'.in.stamp - last_odom_time_ < 1000) =>
            UNCHANGED <<w_dot_odom_, w_odom_last, last_odom_time_>>
       /\ q_odom_' = ev'.in.q /\ w_odom_' = ev'.in.w]_vars

\* an estimate computed over exactly 1000 ns
C16_Witness ==
  /\ ev.kind = "odom"
  /\ last_odom_time_ = ev.in.stamp
  /\ w_odom_last = ev.in.w
  /\ w_dot_odom_[1] \in {1000000, -1000000}

\* the cached command is stale: a sample delivered now re-issues it
StaleNow == so3_cmd_set_ /\ now - last_so3_cmd_time_ >= so3_cmd_timeout_

\* C17: a re-issue leaves last_so3_cmd_time_ at the cached command's stamp and
\* the cached command in place; a stale cached command stays stale until a
\* command with a newer stamp is delivered, and while it is stale every
\* odometry sample re-issues it and publishes
C17_ReissueKeepsStamp ==
  [][/\ (OdomStep /\ ev'.reissue) =>
          /\ last_so3_cmd_time_' = last_so3_cmd_time_
          /\ last_so3_cmd_time_' = last_so3_cmd_.stamp
          /\ last_so3_cmd_' = last_so3_cmd_
     /\ (OdomStep /\ StaleNow) => ev'.reissue /\ Len(pub') >= 1
     /\ (StaleNow /\ ~(ev'.kind = "so3" /\ ev'.in.stamp > last_so3_cmd_time_)) => StaleNow']_vars

\* one command delivered, re-issued by several samples at the same instant
C17_Witness ==
  /\ ncmd = 1 /\ ev.kind = "odom" /\ ev.reissue
  /\ now - last_so3_cmd_time_ = so3_cmd_timeout_
  /\ motor_status_ = 3 /\ StaleNow

\* the conversion outputs of the cached command after the step
CachedOutputs ==
  {FullCmd(last_so3_cmd_', p.q, p.w, p.wdot, cfg.c, cfg.gain) : p \in PoseRead'}

\* what a call for an enable command publishes with motor_status_ before the call
PhaseOutput ==
  IF motor_status_ < 3 THEN pub' = <<ZeroCmd>>
  ELSE IF motor_status_ < 10
       THEN Len(pub') = 2 /\ pub'[1] = MinThrustCmd /\ pub'[2] \in CachedOutputs
       ELSE Len(pub') = 1 /\ pub'[1] \in CachedOutputs

\* C18: a re-issue of a cached enable command adds one to motor_status_, arms
\* a brushless vehicle that is not armed, and publishes what a delivered
\* command publishes in that phase: a zero command, a minimum thrust command
\* followed by the conversion output, or the conversion output alone
C18_ReissueRunsStateMachine ==
  [][(OdomStep /\ ev'.reissue /\ last_so3_cmd_.enable_motors) =>
       /\ motor_status_' = motor_status_ + 1
       /\ PhaseOutput
       /\ ReqTypes(req') = (IF cfg.is_brushless /\ ~armed_ THEN <<"arm">> ELSE <<>>)
       /\ armed_' = (armed_ \/ cfg.is_brushless)]_vars

\* one command delivered, conversion output alone reached by re-issues
C18_Witness ==
  /\ ncmd = 1 /\ ev.kind = "odom" /\ ev.reissue
  /\ last_so3_cmd_.enable_motors
  /\ motor_status_ = 11
  /\ Len(pub) = 1 /\ pub[1].chan = "fast"

\* C19: a re-issue of a cached disable command publishes one zero command and
\* leaves motor_status_ at 0; a disarm or reboot request is made only in a
\* step that starts with the disarm request, and only when the last request
\* made before it was an arm request
C19_ReissuedDisable ==
  [][/\ (OdomStep /\ ev'.reissue /\ ~last_so3_cmd_.enable_motors) =>
          pub' = <<ZeroCmd>> /\ motor_status_' = 0
     /\ (Requested(req', "disarm") \/ Requested(req', "sysoff") \/ Requested(req', "syson")) =>
          /\ ReqTypes(req') = <<"disarm", "sysoff", "syson">>
          /\ lastreq = "arm"]_vars

\* a disable command re-issued after the disarm and reboot: no request
C19_Witness ==
  /\ ev.kind = "odom" /\ ev.reissue /\ ~last_so3_cmd_.enable_motors
  /\ cfg.is_brushless /\ lastreq = "syson" /\ ~armed_
  /\ req = <<>> /\ pub = <<ZeroCmd>> /\ motor_status_ = 0

\* C20: with is_brushless false armed_ is false and no request is or was
\* made; in every configuration an enable command adds one to motor_status_
\* and publishes by phase, and a disable command sets motor_status_ to 0 and
\* publishes one zero command
C20_NotBrushless ==
  /\ ~armed_
  /\ [][/\ ~cfg.is_brushless => ~armed_' /\ req' = <<>> /\ lastreq' = "none"
        /\ EnableStep => motor_status_' = motor_status_ + 1 /\ PhaseOutput
        /\ DisableStep => motor_status_' = 0 /\ pub' = <<ZeroCmd>>]_vars

\* a vehicle that is not brushless: enable commands up to conversion output alone,
\* after a disable command
C20_Witness ==
  /\ ~cfg.is_brushless /\ ~armed_ /\ lastreq = "none"
  /\ ev.kind = "so3" /\ ev.in.enable_motors
  /\ motor_status_ = 11 /\ zeros = 3
  /\ Len(pub) = 1 /\ pub[1].chan = "fast"

=============================================================================
